---- MODULE Spec2Model ----
(***************************************************************************)
(* Model of django/apps/registry.py: the application registry `Apps`.      *)
(*                                                                         *)
(* A registry holds all_models (label -> OrderedDict name -> model),       *)
(* app_configs (OrderedDict label -> AppConfig), stored_app_configs (a     *)
(* stack of saved app_configs), ready, and the lru_cache of get_models.    *)
(* populate() and load_app() are modelled step by step (one step per       *)
(* statement that calls into a collaborator), because the collaborators    *)
(* they call (AppConfig.create, import_models, setup) run arbitrary code:  *)
(* they may register models, call populate() again, or raise.  Every       *)
(* other method is one atomic action.  Registry 1 is the master registry   *)
(* `apps`, built unpopulated when the module is imported; every other      *)
(* registry is built by the constructor, which populates it.               *)
(*                                                                         *)
(* Dotted names are sequences of segments (<<"pkg","a">> is "pkg.a");      *)
(* model names are sequences of characters.  An AppConfig is the record    *)
(* (name, label, given) of its attributes; which instance a place of       *)
(* app_configs holds is kept beside it, in inst.                           *)
(***************************************************************************)
EXTENDS Integers, Sequences, FiniteSets, TLC

VARIABLES
    all_models,          \* [Regs -> [Labels -> [has, od]]]   self.all_models
    app_configs,         \* [Regs -> OrderedDict]             self.app_configs
    stored_app_configs,  \* [Regs -> Seq(OrderedDict)]        self.stored_app_configs
    ready,               \* [Regs -> BOOLEAN]                 self.ready
    cache,               \* [Regs -> set of [key, val]]       get_models' lru_cache
    lock,                \* [owner, depth]                    the import lock
    stack,               \* [Threads -> Seq(frame)]           populate() activations
    ret,                 \* [Threads -> outcome of the thread's latest finished call]
    log,                 \* [Regs -> Seq(event)]   history: what the population under way has done
    worked,              \* [Threads -> BOOLEAN]   history: the thread has passed populate's guards
    snaps,               \* [Regs -> Seq(OrderedDict)] history: app_configs at each push
    replRecs,            \* [Regs -> set of <<label, model>>] history: registered under a replacement
    kinds,               \* [Regs -> Seq(STRING)]  history: which method made each push
    failed,              \* [Regs -> BOOLEAN]      history: the latest population died in import_models
    loaded,              \* set of instances      history: import_models has returned on them
    inst,                \* [Regs -> [cur, saved]] which AppConfig instance each place of
                         \*    app_configs (cur) and of each saved app_configs (saved) holds
    built                \* [Regs -> BOOLEAN]      the object exists: its constructor has returned

vars == <<all_models, app_configs, stored_app_configs, ready, cache, lock,
          stack, ret, log, worked, snaps, replRecs, kinds, failed, loaded, inst, built>>

regVars == <<all_models, app_configs, stored_app_configs, ready, cache>>

-----------------------------------------------------------------------------
(* Bounds *)

\* Longest installed_apps list handed to populate / set_installed_apps.
MaxApps == 2

\* Deepest nesting of populate() activations on one thread.
MaxDepth == 2

\* Deepest stored_app_configs stack where set_available_apps is the only
\* method that pushes.
MaxStack == 2

\* Deepest stored_app_configs stack where set_installed_apps pushes too.
MaxOverrides == 1

-----------------------------------------------------------------------------
(* Universe of inputs *)

Threads == {1, 2}
Regs == {1, 2, 3}
NoThread == 0

\* The master registry, `apps` of line 380; the others are built later.
MasterReg == 1

Labels == {"a", "b"}

NameA == <<"pkg", "a">>
NameB == <<"pkg", "b">>
NameC == <<"pkg", "c">>

\* app_name.rpartition(".")[2]: the text after the last dot (the whole
\* string when it has no dot).
RPartitionLast(app_name) == app_name[Len(app_name)]

\* AppConfig.create(entry): a fresh configuration whose label is the last
\* segment of the dotted name.
AppConfigCreate(entry_name) ==
    [name |-> entry_name, label |-> RPartitionLast(entry_name), given |-> FALSE]

\* An AppConfig instance built by the caller, whose label ("a") is not the
\* last segment of its name and collides with the label of "pkg.a".
CfgGiven == [name |-> NameC, label |-> "a", given |-> TRUE]

NameEntry(n) == [isconfig |-> FALSE, name |-> n, cfg |-> AppConfigCreate(n)]
ConfigEntry(c) == [isconfig |-> TRUE, name |-> c.name, cfg |-> c]

Entries == {NameEntry(NameA), NameEntry(NameB), ConfigEntry(CfgGiven)}

\* The lists of at most n different entries of S, in every order.
RECURSIVE ListsUpTo(_, _)
ListsUpTo(S, n) ==
    IF n = 0 THEN {<<>>}
    ELSE LET shorter == ListsUpTo(S, n - 1)
         IN  shorter \cup {Append(s, x) : s \in {q \in shorter : Len(q) = n - 1},
                                            x \in S}

InstalledLists == {s \in ListsUpTo(Entries, MaxApps) :
                      \A i, j \in DOMAIN s : i # j => s[i] # s[j]}

\* Characters and str.lower().
LowerChar(c) ==
    CASE c = "W" -> "w"
      [] c = "I" -> "i"
      [] c = "G" -> "g"
      [] OTHER -> c

Lower(s) == [i \in DOMAIN s |-> LowerChar(s[i])]

\* Model classes.  model._meta.model_name is the lower-cased class name;
\* Wi and WI are different classes with the same model_name.
ModelWi == [id |-> 1, object_name |-> <<"W", "i">>, auto_created |-> FALSE]
ModelWI == [id |-> 2, object_name |-> <<"W", "I">>, auto_created |-> FALSE]
ModelG  == [id |-> 3, object_name |-> <<"G">>, auto_created |-> TRUE]

Models == {ModelWi, ModelWI, ModelG}

MetaModelName(model) == Lower(model.object_name)

\* The (app_label, model) pairs register_model is called with.
RegInputs == {<<"a", ModelWi>>, <<"a", ModelWI>>, <<"b", ModelG>>}

\* The (app_label, models) register_models is called with: two models
\* stored by one call, and a third model whose name the second has taken.
RegListInputs == {<<"a", <<ModelWi, ModelG>>>>, <<"b", <<ModelG, ModelWi, ModelWI>>>>}

\* A call of register_models that stores its first model and raises on
\* the second.
RegListConflict == {<<"a", <<ModelWi, ModelWI>>>>}

\* Names looked up with get_registered_model.
QueryNames == {<<"W", "i">>, <<"w", "i">>, <<"G">>}

\* The ways a get_models call is written: get_models() and
\* get_models(include_auto_created=...).  lru_cache builds its key from the
\* arguments as the call passes them, so the form is part of the key.
CallForms == {"bare", "keyword"}

\* A get_models call (app_mod is always None): its form and the options
\* the body receives.
FilterKey(form, auto, deferred, swapped) ==
    [form |-> form, include_auto_created |-> auto, include_deferred |-> deferred,
     include_swapped |-> swapped]

\* Calls written with the include_auto_created keyword.
FilterInputs == {FilterKey("keyword", FALSE, FALSE, FALSE), FilterKey("keyword", TRUE, FALSE, FALSE)}

\* The same calls and get_models(), whose options are those of
\* get_models(include_auto_created=False).
CallInputs == FilterInputs \cup {FilterKey("bare", FALSE, FALSE, FALSE)}

\* The options of a call, whatever its form.
Options(key) == <<key.include_auto_created, key.include_deferred, key.include_swapped>>

\* Application names load_app is called with.
LoadNames == {NameA, NameB}

\* Application names has_app is asked about.
AppNames == {NameA, NameB, NameC}

\* Sets of application names handed to set_available_apps.
AvailableInputs == {{}, {NameA}, {NameB}, {NameA, NameB}, {NameC}}

-----------------------------------------------------------------------------
(* OrderedDict: a sequence of [k, v] items in insertion order *)

OdEmpty == <<>>

OdKeys(od) == {od[i].k : i \in DOMAIN od}

OdHas(od, k) == \E i \in DOMAIN od : od[i].k = k

OdGet(od, k) == od[CHOOSE i \in DOMAIN od : od[i].k = k].v

\* od[k] = v: a new key goes last, an existing key keeps its position.
OdSet(od, k, v) ==
    IF OdHas(od, k)
    THEN [i \in DOMAIN od |-> IF od[i].k = k THEN [k |-> k, v |-> v] ELSE od[i]]
    ELSE Append(od, [k |-> k, v |-> v])

\* The place of the item with key k in an OrderedDict.
OdIndex(od, k) == CHOOSE i \in DOMAIN od : od[i].k = k

OdValues(od) == [i \in DOMAIN od |-> od[i].v]

Last(s) == s[Len(s)]
Front(s) == SubSeq(s, 1, Len(s) - 1)

-----------------------------------------------------------------------------
(* The registry's small pieces, one definition per statement of the code *)

\* self.all_models[app_label] on the defaultdict: the key exists afterwards.
AllModelsGetItem(am, app_label) == [am EXCEPT ![app_label].has = TRUE]

\* Mutant: the test of line 62 is missing.
FastPathDropped(r) == FALSE

\* populate, line 62: the unlocked test of self.ready.
FastPathReady(r) == ready[r]

\* Mutant: ready is not tested again once the lock is held.
RecheckDropped(r) == FALSE

\* populate, line 68: the test of self.ready repeated under the import lock.
RecheckReady(r) == ready[r]

\* Mutant: check_ready never raises.
CheckReadySkipped(r) == TRUE

\* check_ready, lines 99-102: passes when self.ready, raises otherwise.
CheckReady(r) == ready[r]

\* populate, line 73: app_configs is not pristine.
NotPristine(r) == app_configs[r] # OdEmpty

\* Mutant: a configuration is stored in front of those already there.
StoreAppConfigFirst(od, app_config) ==
    <<[k |-> app_config.label, v |-> app_config]>> \o od

\* populate, line 82: self.app_configs[app_config.label] = app_config.
StoreAppConfig(od, app_config) == OdSet(od, app_config.label, app_config)

\* Mutant: the view yields the items last to first.
ViewIndexReversed(od, j) == Len(od) + 1 - j

\* populate, lines 85 and 92: the loops walk self.app_configs.values(),
\* under Python 3 a view of the OrderedDict and not a copy.  The j-th item
\* the view's iterator yields is the one at the j-th place of the
\* OrderedDict as it is when the item is asked for.
ViewIndex(od, j) == j

\* Mutant: the loop ends before the last item.
ViewDoneEarly(it, j) == j >= it.n

\* The iterator is exhausted once it has yielded the last of the it.n items
\* the OrderedDict had when the loop began; what is stored later is not
\* looked at.
ViewDone(it, j) == j > it.n

\* An iterator that is not exhausted finds that the OrderedDict has gained
\* a key since the loop began, and raises RuntimeError ("OrderedDict
\* mutated during iteration").  A value stored under a key that exists does
\* not count.
ViewMutated(od, it) == Len(od) # it.n

\* get_app_configs, line 109: self.app_configs.values() (after check_ready).
GetAppConfigs(r) == OdValues(app_configs[r])

\* get_app_config, lines 118-121: self.app_configs[app_label], as the set
\* of configurations returned (empty when the lookup raises LookupError).
GetAppConfig(r, app_label) ==
    IF OdHas(app_configs[r], app_label) THEN {OdGet(app_configs[r], app_label)} ELSE {}

\* has_app, lines 192-193: the configuration stored under the last segment
\* of app_name exists and has that name.
HasApp(r, app_name) ==
    LET app_config == GetAppConfig(r, RPartitionLast(app_name))
    IN  app_config # {} /\ \E c \in app_config : c.name = app_name

\* Mutant: unset_installed_apps leaves ready as it finds it.
ForcedReadyKept(rd, r) == rd

\* unset_installed_apps, line 270: self.ready = True.
ForcedReady(rd, r) == [rd EXCEPT ![r] = TRUE]

\* populate, line 90: self.ready = True.
MarkedReady(rd, r) == [rd EXCEPT ![r] = TRUE]

\* Mutant: the defensive check of line 176 is missing.
ConflictingNever(app_models, model_name) == FALSE

\* register_model, line 176: model_name in app_models.
Conflicting(app_models, model_name) == OdHas(app_models, model_name)

\* register_model, line 180: app_models[model_name] = model.
StoreModel(app_models, model_name, model) == OdSet(app_models, model_name, model)

\* Mutant: the name is looked up as given, without .lower().
GetRegisteredModelExact(r, app_label, model_name) ==
    LET od == all_models[r][app_label].od
    IN  IF OdHas(od, model_name) THEN {OdGet(od, model_name)} ELSE {}

\* get_registered_model: self.all_models[app_label].get(model_name.lower()),
\* as the set of models returned (empty when the lookup raises LookupError).
GetRegisteredModel(r, app_label, model_name) ==
    LET od == all_models[r][app_label].od
    IN  IF OdHas(od, Lower(model_name)) THEN {OdGet(od, Lower(model_name))} ELSE {}

\* AppConfig.get_models: the models registered under the configuration's
\* label, in registration order, without those the options leave out.
AppConfigGetModels(r, app_config, key) ==
    LET Keep(m) == key.include_auto_created \/ ~m.auto_created
    IN  SelectSeq(OdValues(all_models[r][app_config.label].od), Keep)

\* AppConfig.get_model: the model registered under the configuration's
\* label with this (already lower-cased) name, as a set.
AppConfigGetModel(r, app_config, model_name) ==
    LET od == all_models[r][app_config.label].od
    IN  IF OdHas(od, model_name) THEN {OdGet(od, model_name)} ELSE {}

\* get_model, line 167: self.get_app_config(app_label).get_model(model_name.lower()).
GetModel(r, app_label, model_name) ==
    IF GetAppConfig(r, app_label) = {} THEN {}
    ELSE AppConfigGetModel(r, OdGet(app_configs[r], app_label), Lower(model_name))

RECURSIVE ExtendAll(_, _, _)
ExtendAll(r, configs, key) ==
    IF configs = <<>> THEN <<>>
    ELSE AppConfigGetModels(r, configs[1], key) \o ExtendAll(r, Tail(configs), key)

\* get_models, lines 151-155: the uncached body for app_mod = None.
GetModelsBody(r, key) == ExtendAll(r, OdValues(app_configs[r]), key)

\* set_available_apps, line 222: the names of the installed configurations.
InstalledNames(r) == {app_configs[r][i].v.name : i \in DOMAIN app_configs[r]}

\* Mutant: every configuration is kept, whatever names are available.
RestrictToAll(od, available) == od

\* set_available_apps, lines 228-231: the configurations whose name is available.
RestrictTo(od, available) ==
    LET Keep(item) == item.v.name \in available
    IN  SelectSeq(od, Keep)

\* Mutant: the oldest saved app_configs is restored instead of the latest.
StackBottom(stored) == stored[1]

\* stored_app_configs.append(...) and stored_app_configs.pop().
StackPush(stored, od) == Append(stored, od)
StackTop(stored) == Last(stored)
StackRest(stored) == Front(stored)

\* Mutant: the lock is not re-entrant.
LockFreeOnly(t) == lock.owner = NoThread

\* The import lock is one process-wide re-entrant lock.
LockFreeFor(t) == lock.owner \in {NoThread, t}
LockAcquire(t) == [owner |-> t, depth |-> lock.depth + 1]
LockRelease ==
    IF lock.depth = 1 THEN [owner |-> NoThread, depth |-> 0]
    ELSE [lock EXCEPT !.depth = @ - 1]

-----------------------------------------------------------------------------
(* Threads and activations *)

Depth(t) == Len(stack[t])
Top(t) == stack[t][Depth(t)]
AtTop(t) == stack[t] = <<>>
HookPcs == {"in_create", "in_load", "in_setup"}
InHook(t) == ~AtTop(t) /\ Top(t).pc \in HookPcs
InLoad(t) == ~AtTop(t) /\ Top(t).pc = "in_load"

\* load_app is inside AppConfig.create or import_models.
AppHookPcs == {"la_create", "la_load"}
InAppHook(t) == ~AtTop(t) /\ Top(t).pc \in AppHookPcs

\* What a finished call gave its caller: "ok" or the fault it raised.
Outcome(op, out) == [op |-> op, out |-> out]

\* A finished call that returned the value val.
Returned(op, val) == [op |-> op, out |-> "ok", val |-> val]

\* The exception a collaborator raised, named after the collaborator.
HookFaultName(pc) ==
    CASE pc = "in_create" -> "CreateFault"
      [] pc = "in_load" -> "LoadFault"
      [] pc = "in_setup" -> "SetupFault"

SetTop(t, f) == [stack EXCEPT ![t][Depth(t)] = f]
Pop(t) == [stack EXCEPT ![t] = Front(@)]

\* The instance the caller passes in the list (CfgGiven) is one object
\* wherever it is held; AppConfig.create makes a new instance at each call.
GivenId == 0
NoId == -1
NoCfg == [name |-> <<>>, label |-> "", given |-> FALSE]

\* No loop is running in the activation.
NoIter == [lvl |-> 0, n |-> 0, od |-> OdEmpty, ids |-> <<>>]

\* An activation of populate or load_app: the registry, the list, the
\* place in the first loop (i), the iterator of the second or third loop
\* (iter) and the number of the item it is at (j), and the local variable
\* app_config (cfg, and cid for which instance it is).
NewFrame(r, installed) ==
    [reg |-> r, installed |-> installed, i |-> 1, pc |-> "lock",
     iter |-> NoIter, j |-> 1, nested |-> FALSE, ctor |-> FALSE,
     cfg |-> NoCfg, cid |-> NoId]

\* iter(self.app_configs.values()): the iterator is tied to the OrderedDict
\* that self.app_configs is bound to now, told apart by its level (the
\* saved ones are levels 1 .. Len(stored_app_configs), the bound one is the
\* next), and remembers how many items it has.
ViewOf(r) ==
    [lvl |-> Len(stored_app_configs[r]) + 1, n |-> Len(app_configs[r]),
     od |-> OdEmpty, ids |-> <<>>]

\* The OrderedDict the activation's iterator walks, as it is now: the one
\* self.app_configs is bound to, a saved one, or (level 0) one that
\* unset_available_apps / unset_installed_apps has dropped from the
\* registry while the loop was running.
IterDict(f) ==
    IF f.iter.lvl = 0 THEN f.iter.od
    ELSE IF f.iter.lvl = Len(stored_app_configs[f.reg]) + 1 THEN app_configs[f.reg]
    ELSE stored_app_configs[f.reg][f.iter.lvl]

\* The instances that OrderedDict holds, place by place.
IterIds(f) ==
    IF f.iter.lvl = 0 THEN f.iter.ids
    ELSE IF f.iter.lvl = Len(stored_app_configs[f.reg]) + 1 THEN inst[f.reg].cur
    ELSE inst[f.reg].saved[f.iter.lvl]

\* self.app_configs = self.stored_app_configs.pop(): the OrderedDict that
\* was bound is no longer the registry's; a loop that walks it keeps it.
Detach(r) ==
    [u \in Threads |-> [d \in DOMAIN stack[u] |->
        IF stack[u][d].reg = r /\ stack[u][d].iter.lvl = Len(stored_app_configs[r]) + 1
        THEN [stack[u][d] EXCEPT !.iter.lvl = 0, !.iter.od = app_configs[r],
                                 !.iter.ids = inst[r].cur]
        ELSE stack[u][d]]]

Event(t, kind, app_config, id) == [by |-> t, ev |-> kind, cfg |-> app_config, inst |-> id]

\* The history of a population is kept while an activation of populate on
\* the registry is past the guards, and dropped when the last one ends.
LogAfterPop(t) ==
    LET r == Top(t).reg
        rest == Front(stack[t])
    IN  IF \E n \in DOMAIN rest : rest[n].reg = r /\ rest[n].pc # "lock"
        THEN log
        ELSE [log EXCEPT ![r] = <<>>]

\* No place, no instance.
NoInst == [cur |-> <<>>, saved |-> <<>>]

\* od[label] = app_config, for the instances: the same store, made on the
\* OrderedDict with each value replaced by its instance, so that the place
\* of the label gets the instance and a new label a new place.
IdStored(od, ids, label, id) ==
    LET held == [i \in DOMAIN od |->
                    [k |-> od[i].k, v |-> [label |-> od[i].k, id |-> ids[i]]]]
        put == StoreAppConfig(held, [label |-> label, id |-> id])
    IN  [i \in DOMAIN put |-> put[i].v.id]

\* The instances of the items of od that picked keeps.
IdsKept(od, ids, picked) == [i \in DOMAIN picked |-> ids[OdIndex(od, picked[i].k)]]

Range(s) == {s[i] : i \in DOMAIN s}

\* The instances something still refers to: those held in app_configs or
\* in a saved app_configs of a registry (ic), those an activation (st)
\* holds in app_config or in an OrderedDict that only its loop still has,
\* and those the history of a population under way (lg) tells of.
AliveIds(ic, st, lg) ==
    UNION {Range(ic[r].cur) \cup UNION {Range(ic[r].saved[n]) : n \in DOMAIN ic[r].saved}
              : r \in Regs}
    \cup UNION {UNION {{st[u][d].cid} \cup Range(st[u][d].iter.ids) : d \in DOMAIN st[u]}
                  : u \in Threads}
    \cup UNION {{lg[r][n].inst : n \in DOMAIN lg[r]} : r \in Regs}

\* The instance AppConfig.create returns: one that nothing refers to yet.
FreshId(ic, st, lg) ==
    CHOOSE i \in 1..(Cardinality(AliveIds(ic, st, lg)) + 1) :
        /\ i \notin AliveIds(ic, st, lg)
        /\ \A k \in 1..(i - 1) : k \in AliveIds(ic, st, lg)

\* The history of the instances nothing refers to any more is dropped, by
\* every step that drops a reference; the caller keeps the instance it
\* passes.
Forget(ld, ic, st, lg) == ld \cap (AliveIds(ic, st, lg) \cup {GivenId})

\* The state once the module is imported: line 380 has built the master
\* registry with installed_apps = None, so lines 35-48 ran and line 52 did
\* not.  No other registry exists yet; the fields of a registry that is
\* not built are those its constructor will set.
Init ==
    /\ all_models = [r \in Regs |-> [l \in Labels |-> [has |-> FALSE, od |-> OdEmpty]]]
    /\ app_configs = [r \in Regs |-> OdEmpty]
    /\ stored_app_configs = [r \in Regs |-> <<>>]
    /\ ready = [r \in Regs |-> FALSE]
    /\ cache = [r \in Regs |-> {}]
    /\ lock = [owner |-> NoThread, depth |-> 0]
    /\ stack = [t \in Threads |-> <<>>]
    /\ ret = [t \in Threads |-> Outcome("none", "none")]
    /\ log = [r \in Regs |-> <<>>]
    /\ worked = [t \in Threads |-> FALSE]
    /\ snaps = [r \in Regs |-> <<>>]
    /\ replRecs = [r \in Regs |-> {}]
    /\ kinds = [r \in Regs |-> <<>>]
    /\ failed = [r \in Regs |-> FALSE]
    /\ loaded = {}
    /\ inst = [r \in Regs |-> NoInst]
    /\ built = [r \in Regs |-> r = MasterReg]

-----------------------------------------------------------------------------
(* clear_cache, lines 273-279 *)

\* Mutant: the cache is left as it is.
ClearCacheSkipped(r) == cache

\* get_models is wrapped once, in the class body: the lru_cache is shared by
\* every registry (keyed by self and the arguments) and cache_clear()
\* empties all of it.
ClearCache(r) == [q \in Regs |-> {}]

-----------------------------------------------------------------------------
(* __init__, lines 21-52 *)

\* No activation of populate is running on the registry.
Idle(r) == \A u \in Threads : \A n \in DOMAIN stack[u] : stack[u][n].reg # r

\* Apps(installed_apps) with a list: lines 35-48 set the fields of the new
\* object and line 52 calls populate, which finds ready false at line 62,
\* so the step ends with populate waiting for the import lock.  The object
\* exists for other callers once populate, and so the constructor, has
\* returned; a constructor that raises leaves no object.
AppsInit(t, r, installed) ==
    /\ AtTop(t) \/ (InHook(t) /\ Depth(t) < MaxDepth)
    /\ ~built[r] /\ Idle(r)
    /\ all_models' = [all_models EXCEPT ![r] = [l \in Labels |-> [has |-> FALSE, od |-> OdEmpty]]]
    /\ app_configs' = [app_configs EXCEPT ![r] = OdEmpty]
    /\ stored_app_configs' = [stored_app_configs EXCEPT ![r] = <<>>]
    /\ ready' = [ready EXCEPT ![r] = FALSE]
    /\ cache' = [cache EXCEPT ![r] = {}]
    /\ stack' = [stack EXCEPT ![t] = Append(@, [NewFrame(r, installed) EXCEPT !.ctor = TRUE])]
    /\ log' = [log EXCEPT ![r] = <<>>]
    /\ snaps' = [snaps EXCEPT ![r] = <<>>]
    /\ replRecs' = [replRecs EXCEPT ![r] = {}]
    /\ kinds' = [kinds EXCEPT ![r] = <<>>]
    /\ failed' = [failed EXCEPT ![r] = FALSE]
    /\ inst' = [inst EXCEPT ![r] = NoInst]
    /\ loaded' = Forget(loaded, inst', stack', log')
    /\ UNCHANGED <<lock, ret, worked, built>>

\* Apps(installed_apps=None) once the module has its `apps`: lines 25-26
\* raise and no object is built.
AppsInitNone(t) ==
    /\ AtTop(t) \/ InHook(t)
    /\ ret' = [ret EXCEPT ![t] = Outcome("__init__", "NoInstalledAppsFault")]
    /\ UNCHANGED <<regVars, lock, stack, log, worked, snaps, replRecs, kinds, failed, loaded, built, inst>>

-----------------------------------------------------------------------------

(* populate, lines 54-93 *)

\* The call, up to the unlocked test of line 62.  Made by a caller outside
\* the registry (no activation on the thread) or by a collaborator that
\* populate is running (AppConfig.create, import_models, setup).
PopulateCall(t, r, installed) ==
    /\ AtTop(t) \/ (InHook(t) /\ Depth(t) < MaxDepth)
    /\ IF FastPathReady(r)
       THEN /\ ret' = [ret EXCEPT ![t] = Outcome("populate", "ok")]
            /\ UNCHANGED stack
       ELSE /\ stack' = [stack EXCEPT ![t] = Append(@, NewFrame(r, installed))]
            /\ UNCHANGED ret
    /\ UNCHANGED <<regVars, lock, log, worked, snaps, replRecs, kinds, failed, loaded, built, inst>>

\* Lines 67-74: take the import lock, test ready again, refuse a registry
\* whose app_configs is not pristine.  Leaving the with block on return or
\* raise gives the lock back, so only the third branch keeps it.
PopulateLock(t) ==
    /\ ~AtTop(t) /\ Top(t).pc = "lock"
    /\ LockFreeFor(t)
    /\ LET r == Top(t).reg
           k == Depth(t)
       IN  IF RecheckReady(r)
           THEN /\ stack' = Pop(t)
                /\ ret' = [ret EXCEPT ![t] = Outcome("populate", "ok")]
                /\ UNCHANGED <<lock, log, worked, failed, loaded>>
           ELSE IF NotPristine(r)
           THEN /\ stack' = Pop(t)
                /\ ret' = [ret EXCEPT ![t] = Outcome("populate", "ReentrancyFault")]
                /\ UNCHANGED <<lock, log, worked, failed, loaded>>
           ELSE /\ lock' = LockAcquire(t)
                /\ stack' = [stack EXCEPT ![t] =
                       [n \in 1..k |->
                           IF n = k THEN [stack[t][n] EXCEPT !.pc = "resolve", !.i = 1]
                           ELSE IF stack[t][n].reg = r
                                THEN [stack[t][n] EXCEPT !.nested = TRUE]
                                ELSE stack[t][n]]]
                /\ log' = [log EXCEPT ![r] = <<>>]
                /\ worked' = [worked EXCEPT ![t] = TRUE]
                /\ failed' = [failed EXCEPT ![r] = FALSE]
                /\ loaded' = Forget(loaded, inst, stack', log')
                /\ UNCHANGED ret
    /\ UNCHANGED <<regVars, snaps, replRecs, kinds, built, inst>>

\* Lines 77-79, 82: the entry is an AppConfig instance and is stored as is.
ResolveGiven(t) ==
    /\ ~AtTop(t) /\ Top(t).pc = "resolve"
    /\ Top(t).i <= Len(Top(t).installed)
    /\ Top(t).installed[Top(t).i].isconfig
    /\ LET r == Top(t).reg
           app_config == Top(t).installed[Top(t).i].cfg
       IN  /\ app_configs' = [app_configs EXCEPT ![r] = StoreAppConfig(@, app_config)]
           /\ log' = [log EXCEPT ![r] = Append(@, Event(t, "install", app_config, GivenId))]
           /\ stack' = SetTop(t, [Top(t) EXCEPT !.i = @ + 1, !.cfg = app_config,
                                                !.cid = GivenId])
           /\ inst' = [inst EXCEPT ![r].cur =
                  IdStored(app_configs[r], @, app_config.label, GivenId)]
           /\ loaded' = Forget(loaded, inst', stack', log')
    /\ UNCHANGED <<all_models, stored_app_configs, ready, cache, lock, ret,
                   worked, snaps, replRecs, kinds, failed, built>>

\* Lines 80-81: the entry is a name; AppConfig.create(entry) starts running.
CreateCall(t) ==
    /\ ~AtTop(t) /\ Top(t).pc = "resolve"
    /\ Top(t).i <= Len(Top(t).installed)
    /\ ~Top(t).installed[Top(t).i].isconfig
    /\ stack' = SetTop(t, [Top(t) EXCEPT !.pc = "in_create"])
    /\ UNCHANGED <<regVars, lock, ret, log, worked, snaps, replRecs, kinds, failed, loaded, built, inst>>

\* Lines 81-82: AppConfig.create(entry) returns a new instance, which is
\* stored.
CreateReturn(t) ==
    /\ ~AtTop(t) /\ Top(t).pc = "in_create"
    /\ LET r == Top(t).reg
           app_config == AppConfigCreate(Top(t).installed[Top(t).i].name)
           id == FreshId(inst, stack, log)
       IN  /\ app_configs' = [app_configs EXCEPT ![r] = StoreAppConfig(@, app_config)]
           /\ log' = [log EXCEPT ![r] = Append(@, Event(t, "install", app_config, id))]
           /\ stack' = SetTop(t, [Top(t) EXCEPT !.pc = "resolve", !.i = @ + 1,
                                                !.cfg = app_config, !.cid = id])
           /\ inst' = [inst EXCEPT ![r].cur = IdStored(app_configs[r], @, app_config.label, id)]
           /\ loaded' = Forget(loaded, inst', stack', log')
    /\ UNCHANGED <<all_models, stored_app_configs, ready, cache, lock, ret,
                   worked, snaps, replRecs, kinds, failed, built>>

\* Line 85: the first loop is over and the second begins: the iterator of
\* self.app_configs.values() is made.
ResolveDone(t) ==
    /\ ~AtTop(t) /\ Top(t).pc = "resolve"
    /\ Top(t).i > Len(Top(t).installed)
    /\ stack' = SetTop(t, [Top(t) EXCEPT !.pc = "load", !.j = 1,
                                         !.iter = ViewOf(Top(t).reg)])
    /\ UNCHANGED <<regVars, lock, ret, log, worked, snaps, replRecs, kinds, failed, loaded, built, inst>>

\* The iterator of line 85 or 92 raises RuntimeError: the exception leaves
\* the with block (the lock is given back) and populate; nothing is undone.
IterFault(t) ==
    /\ lock' = LockRelease
    /\ stack' = Pop(t)
    /\ ret' = [ret EXCEPT ![t] = Outcome("populate", "MutatedFault")]
    /\ log' = LogAfterPop(t)
    /\ loaded' = Forget(loaded, inst, stack', log')
    /\ UNCHANGED <<regVars, worked, snaps, replRecs, kinds, failed, built, inst>>

\* Lines 85-87: the iterator gives the next configuration, as the
\* OrderedDict holds it now; all_models = self.all_models[app_config.label],
\* then app_config.import_models(all_models) starts running.
LoadCall(t) ==
    /\ ~AtTop(t) /\ Top(t).pc = "load"
    /\ ~ViewDone(Top(t).iter, Top(t).j)
    /\ IF ViewMutated(IterDict(Top(t)), Top(t).iter)
       THEN IterFault(t)
       ELSE LET r == Top(t).reg
                at == ViewIndex(IterDict(Top(t)), Top(t).j)
                app_config == IterDict(Top(t))[at].v
                id == IterIds(Top(t))[at]
            IN  /\ all_models' = [all_models EXCEPT ![r] = AllModelsGetItem(@, app_config.label)]
                /\ log' = [log EXCEPT ![r] = Append(@, Event(t, "load", app_config, id))]
                /\ stack' = SetTop(t, [Top(t) EXCEPT !.pc = "in_load", !.cfg = app_config,
                                                     !.cid = id])
                /\ loaded' = Forget(loaded, inst, stack', log')
                /\ UNCHANGED <<app_configs, stored_app_configs, ready, cache, lock, ret,
                               worked, snaps, replRecs, kinds, failed, built, inst>>

\* Line 87: import_models returns, on the instance it was called on.
LoadReturn(t) ==
    /\ ~AtTop(t) /\ Top(t).pc = "in_load"
    /\ stack' = SetTop(t, [Top(t) EXCEPT !.pc = "load", !.j = @ + 1])
    /\ loaded' = Forget(loaded \cup {Top(t).cid}, inst, stack', log)
    /\ UNCHANGED <<regVars, lock, ret, log, worked, snaps, replRecs, kinds, failed, built, inst>>

\* Lines 89-92: the second loop is over; clear_cache(), ready = True, and
\* the iterator of get_app_configs() (whose check_ready passes) is made.
MarkReady(t) ==
    /\ ~AtTop(t) /\ Top(t).pc = "load"
    /\ ViewDone(Top(t).iter, Top(t).j)
    /\ LET r == Top(t).reg
       IN  /\ cache' = ClearCache(r)
           /\ ready' = MarkedReady(ready, r)
           /\ stack' = SetTop(t, [Top(t) EXCEPT !.pc = "setup", !.j = 1,
                                                !.iter = ViewOf(r)])
    /\ loaded' = Forget(loaded, inst, stack', log)
    /\ UNCHANGED <<all_models, app_configs, stored_app_configs, lock, ret, log,
                   worked, snaps, replRecs, kinds, failed, built, inst>>

\* Lines 92-93: the iterator gives the next configuration, as the
\* OrderedDict holds it now, and app_config.setup() starts running.
SetupCall(t) ==
    /\ ~AtTop(t) /\ Top(t).pc = "setup"
    /\ ~ViewDone(Top(t).iter, Top(t).j)
    /\ IF ViewMutated(IterDict(Top(t)), Top(t).iter)
       THEN IterFault(t)
       ELSE LET at == ViewIndex(IterDict(Top(t)), Top(t).j)
                app_config == IterDict(Top(t))[at].v
                id == IterIds(Top(t))[at]
            IN  /\ log' = [log EXCEPT ![Top(t).reg] =
                       Append(@, Event(t, "setup", app_config, id))]
                /\ stack' = SetTop(t, [Top(t) EXCEPT !.pc = "in_setup", !.cfg = app_config,
                                                     !.cid = id])
                /\ loaded' = Forget(loaded, inst, stack', log')
                /\ UNCHANGED <<regVars, lock, ret, worked, snaps, replRecs, kinds, failed,
                               built, inst>>

\* Line 93: setup() returns.
SetupReturn(t) ==
    /\ ~AtTop(t) /\ Top(t).pc = "in_setup"
    /\ stack' = SetTop(t, [Top(t) EXCEPT !.pc = "setup", !.j = @ + 1])
    /\ UNCHANGED <<regVars, lock, ret, log, worked, snaps, replRecs, kinds, failed, loaded, built, inst>>

\* The third loop is over, and with it the with block: populate returns
\* and gives the lock back.
PopulateReturn(t) ==
    /\ ~AtTop(t) /\ Top(t).pc = "setup"
    /\ ViewDone(Top(t).iter, Top(t).j)
    /\ lock' = LockRelease
    /\ stack' = Pop(t)
    /\ ret' = [ret EXCEPT ![t] = Outcome("populate", "ok")]
    /\ log' = LogAfterPop(t)
    /\ built' = IF Top(t).ctor THEN [built EXCEPT ![Top(t).reg] = TRUE] ELSE built
    /\ loaded' = Forget(loaded, inst, stack', log')
    /\ UNCHANGED <<regVars, worked, snaps, replRecs, kinds, failed, inst>>

\* AppConfig.create, import_models or setup raises: the exception leaves the
\* with block (the lock is given back) and populate; nothing is undone.
HookFault(t) ==
    /\ InHook(t)
    /\ lock' = LockRelease
    /\ stack' = Pop(t)
    /\ ret' = [ret EXCEPT ![t] = Outcome("populate", HookFaultName(Top(t).pc))]
    /\ failed' = IF Top(t).pc = "in_load" THEN [failed EXCEPT ![Top(t).reg] = TRUE]
                 ELSE failed
    /\ log' = LogAfterPop(t)
    /\ loaded' = Forget(loaded, inst, stack', log')
    /\ UNCHANGED <<regVars, worked, snaps, replRecs, kinds, inst, built>>

-----------------------------------------------------------------------------
(* register_model, lines 169-181 *)

UnderReplacement(r) == \E n \in DOMAIN kinds[r] : kinds[r][n] = "installed"

RegisterModel(t, r, app_label, model) ==
    /\ AtTop(t) \/ InHook(t) \/ InAppHook(t)
    /\ LET model_name == MetaModelName(model)
           touched == AllModelsGetItem(all_models[r], app_label)
           app_models == touched[app_label].od
       IN  IF Conflicting(app_models, model_name)
           THEN /\ all_models' = [all_models EXCEPT ![r] = touched]
                /\ ret' = [ret EXCEPT ![t] = Outcome("register_model", "ConflictFault")]
                /\ UNCHANGED <<cache, replRecs>>
           ELSE /\ all_models' = [all_models EXCEPT ![r] =
                       [touched EXCEPT ![app_label].od = StoreModel(app_models, model_name, model)]]
                /\ cache' = ClearCache(r)
                /\ ret' = [ret EXCEPT ![t] = Outcome("register_model", "ok")]
                /\ replRecs' = IF UnderReplacement(r)
                               THEN [replRecs EXCEPT ![r] = @ \cup {<<app_label, model>>}]
                               ELSE replRecs
    /\ UNCHANGED <<app_configs, stored_app_configs, ready, lock, stack, log,
                   worked, snaps, kinds, failed, loaded, built, inst>>

-----------------------------------------------------------------------------
(* register_models, lines 369-377 *)

\* Lines 376-377: register_model(app_label, model) for each model in turn,
\* on the all_models am.  The first call that raises ends the loop; what
\* the calls before it stored stays.  Gives all_models as the loop leaves
\* it, the models stored and how the loop ended.
RECURSIVE RegisterEach(_, _, _)
RegisterEach(am, app_label, models) ==
    IF models = <<>> THEN [am |-> am, stored |-> <<>>, out |-> "ok"]
    ELSE LET model == Head(models)
             model_name == MetaModelName(model)
             touched == AllModelsGetItem(am, app_label)
             app_models == touched[app_label].od
         IN  IF Conflicting(app_models, model_name)
             THEN [am |-> touched, stored |-> <<>>, out |-> "ConflictFault"]
             ELSE LET rest == RegisterEach(
                                  [touched EXCEPT ![app_label].od =
                                      StoreModel(app_models, model_name, model)],
                                  app_label, Tail(models))
                  IN  [rest EXCEPT !.stored = <<model>> \o @]

\* register_models(app_label, *models): the deprecation warning, then the
\* loop.  Each model stored clears the cache (line 181).
RegisterModels(t, r, app_label, models) ==
    /\ AtTop(t) \/ InHook(t) \/ InAppHook(t)
    /\ LET done == RegisterEach(all_models[r], app_label, models)
       IN  /\ all_models' = [all_models EXCEPT ![r] = done.am]
           /\ cache' = IF done.stored = <<>> THEN cache ELSE ClearCache(r)
           /\ ret' = [ret EXCEPT ![t] = Outcome("register_models", done.out)]
           /\ replRecs' = IF UnderReplacement(r)
                          THEN [replRecs EXCEPT ![r] =
                                   @ \cup {<<app_label, done.stored[i]>> : i \in DOMAIN done.stored}]
                          ELSE replRecs
    /\ UNCHANGED <<app_configs, stored_app_configs, ready, lock, stack, log,
                   worked, snaps, kinds, failed, loaded, built, inst>>

-----------------------------------------------------------------------------
(* get_models, lines 123-155, and get_registered_model, lines 195-207 *)

\* lru_cache has an entry for the call: same registry, same arguments
\* passed in the same form.
CacheHit(r, key) == \E e \in cache[r] : e.key = key

\* The lru_cache wrapper answers a remembered call without running the body;
\* a call whose body raises is not remembered.
CacheGet(r, key) == (CHOOSE e \in cache[r] : e.key = key).val

\* What get_models gave its caller: the list, and which remembered call's
\* list object it is.
Memoized(val, key) == [op |-> "get_models", out |-> "ok", val |-> val, obj |-> key]

GetModels(t, r, key) ==
    /\ AtTop(t) \/ InHook(t)
    /\ IF CacheHit(r, key)
       THEN /\ ret' = [ret EXCEPT ![t] = Memoized(CacheGet(r, key), key)]
            /\ UNCHANGED cache
       ELSE IF ~CheckReady(r)
       THEN /\ ret' = [ret EXCEPT ![t] = Outcome("get_models", "NotReadyFault")]
            /\ UNCHANGED cache
       ELSE /\ cache' = [cache EXCEPT ![r] = @ \cup {[key |-> key, val |-> GetModelsBody(r, key)]}]
            /\ ret' = [ret EXCEPT ![t] = Memoized(GetModelsBody(r, key), key)]
    /\ UNCHANGED <<all_models, app_configs, stored_app_configs, ready, lock, stack,
                   log, worked, snaps, replRecs, kinds, failed, loaded, built, inst>>

\* get_app_configs, lines 104-109.
GetAppConfigsCall(t, r) ==
    /\ AtTop(t) \/ InHook(t)
    /\ ret' = [ret EXCEPT ![t] =
                  IF ~CheckReady(r) THEN Outcome("get_app_configs", "NotReadyFault")
                  ELSE Returned("get_app_configs", GetAppConfigs(r))]
    /\ UNCHANGED <<regVars, lock, stack, log, worked, snaps, replRecs, kinds, failed, loaded, built, inst>>

\* get_app_config, lines 111-121.
GetAppConfigCall(t, r, app_label) ==
    /\ AtTop(t) \/ InHook(t)
    /\ ret' = [ret EXCEPT ![t] =
                  IF ~CheckReady(r) THEN Outcome("get_app_config", "NotReadyFault")
                  ELSE IF GetAppConfig(r, app_label) = {}
                       THEN Outcome("get_app_config", "NotFoundFault")
                       ELSE Returned("get_app_config", GetAppConfig(r, app_label))]
    /\ UNCHANGED <<regVars, lock, stack, log, worked, snaps, replRecs, kinds, failed, loaded, built, inst>>

\* get_model, lines 157-167.
GetModelCall(t, r, app_label, model_name) ==
    /\ AtTop(t) \/ InHook(t)
    /\ ret' = [ret EXCEPT ![t] =
                  IF ~CheckReady(r) THEN Outcome("get_model", "NotReadyFault")
                  ELSE IF GetModel(r, app_label, model_name) = {}
                       THEN Outcome("get_model", "NotFoundFault")
                       ELSE Returned("get_model", GetModel(r, app_label, model_name))]
    /\ UNCHANGED <<regVars, lock, stack, log, worked, snaps, replRecs, kinds, failed, loaded, built, inst>>

\* has_app, lines 183-193.
HasAppCall(t, r, app_name) ==
    /\ AtTop(t) \/ InHook(t)
    /\ ret' = [ret EXCEPT ![t] = Returned("has_app", HasApp(r, app_name))]
    /\ UNCHANGED <<regVars, lock, stack, log, worked, snaps, replRecs, kinds, failed, loaded, built, inst>>

GetRegisteredModelCall(t, r, app_label, model_name) ==
    /\ AtTop(t) \/ InHook(t)
    /\ all_models' = [all_models EXCEPT ![r] = AllModelsGetItem(@, app_label)]
    /\ ret' = [ret EXCEPT ![t] =
                  Outcome("get_registered_model",
                          IF GetRegisteredModel(r, app_label, model_name) = {}
                          THEN "NotFoundFault" ELSE "ok")]
    /\ UNCHANGED <<app_configs, stored_app_configs, ready, cache, lock, stack,
                   log, worked, snaps, replRecs, kinds, failed, loaded, built, inst>>

-----------------------------------------------------------------------------
(* set_available_apps / unset_available_apps, lines 209-239 *)

SetAvailableApps(t, r, available) ==
    /\ AtTop(t)
    /\ IF ~CheckReady(r)
       THEN /\ ret' = [ret EXCEPT ![t] = Outcome("set_available_apps", "NotReadyFault")]
            /\ UNCHANGED <<app_configs, stored_app_configs, cache, snaps, kinds, inst>>
       ELSE IF ~(available \subseteq InstalledNames(r))
       THEN /\ ret' = [ret EXCEPT ![t] = Outcome("set_available_apps", "InvalidSubsetFault")]
            /\ UNCHANGED <<app_configs, stored_app_configs, cache, snaps, kinds, inst>>
       ELSE /\ stored_app_configs' = [stored_app_configs EXCEPT ![r] = StackPush(@, app_configs[r])]
            /\ app_configs' = [app_configs EXCEPT ![r] = RestrictTo(@, available)]
            /\ cache' = ClearCache(r)
            /\ ret' = [ret EXCEPT ![t] = Outcome("set_available_apps", "ok")]
            /\ snaps' = [snaps EXCEPT ![r] = Append(@, app_configs[r])]
            /\ kinds' = [kinds EXCEPT ![r] = Append(@, "available")]
            /\ inst' = [inst EXCEPT ![r] =
                   [cur |-> IdsKept(app_configs[r], @.cur, RestrictTo(app_configs[r], available)),
                    saved |-> Append(@.saved, @.cur)]]
    /\ UNCHANGED <<all_models, ready, lock, stack, log, worked, replRecs, failed, built, loaded>>

\* list.pop() on the empty stack raises before anything is assigned.
UnsetAvailableApps(t, r) ==
    /\ AtTop(t)
    /\ IF stored_app_configs[r] = <<>>
       THEN /\ ret' = [ret EXCEPT ![t] = Outcome("unset_available_apps", "UnbalancedStackFault")]
            /\ UNCHANGED <<app_configs, stored_app_configs, cache, snaps, kinds,
                           loaded, inst, stack>>
       ELSE /\ app_configs' = [app_configs EXCEPT ![r] = StackTop(stored_app_configs[r])]
            /\ stored_app_configs' = [stored_app_configs EXCEPT ![r] = StackRest(@)]
            /\ cache' = ClearCache(r)
            /\ ret' = [ret EXCEPT ![t] = Outcome("unset_available_apps", "ok")]
            /\ snaps' = [snaps EXCEPT ![r] = Front(@)]
            /\ kinds' = [kinds EXCEPT ![r] = Front(@)]
            /\ stack' = Detach(r)
            /\ inst' = [inst EXCEPT ![r] = [cur |-> Last(@.saved), saved |-> Front(@.saved)]]
            /\ loaded' = Forget(loaded, inst', stack', log)
    /\ UNCHANGED <<all_models, ready, lock, log, worked, replRecs, failed, built>>

-----------------------------------------------------------------------------
(* set_installed_apps / unset_installed_apps, lines 241-271 *)

\* Lines 258-263.  The populate call of line 263 finds ready false at its
\* line 62, so the step ends with populate waiting for the import lock.
SetInstalledApps(t, r, installed) ==
    /\ AtTop(t)
    /\ IF ~CheckReady(r)
       THEN /\ ret' = [ret EXCEPT ![t] = Outcome("set_installed_apps", "NotReadyFault")]
            /\ UNCHANGED <<app_configs, stored_app_configs, ready, cache, stack,
                           snaps, kinds, replRecs, inst>>
       ELSE /\ stored_app_configs' = [stored_app_configs EXCEPT ![r] = StackPush(@, app_configs[r])]
            /\ app_configs' = [app_configs EXCEPT ![r] = OdEmpty]
            /\ ready' = [ready EXCEPT ![r] = FALSE]
            /\ cache' = ClearCache(r)
            /\ stack' = [stack EXCEPT ![t] = Append(@, NewFrame(r, installed))]
            /\ snaps' = [snaps EXCEPT ![r] = Append(@, app_configs[r])]
            /\ replRecs' = IF UnderReplacement(r) THEN replRecs
                           ELSE [replRecs EXCEPT ![r] = {}]
            /\ kinds' = [kinds EXCEPT ![r] = Append(@, "installed")]
            /\ inst' = [inst EXCEPT ![r] = [cur |-> <<>>, saved |-> Append(@.saved, @.cur)]]
            /\ UNCHANGED ret
    /\ UNCHANGED <<all_models, lock, log, worked, failed, built, loaded>>

UnsetInstalledApps(t, r) ==
    /\ AtTop(t)
    /\ IF stored_app_configs[r] = <<>>
       THEN /\ ret' = [ret EXCEPT ![t] = Outcome("unset_installed_apps", "UnbalancedStackFault")]
            /\ UNCHANGED <<app_configs, stored_app_configs, ready, cache, snaps, kinds,
                           loaded, inst, stack>>
       ELSE /\ app_configs' = [app_configs EXCEPT ![r] = StackTop(stored_app_configs[r])]
            /\ stored_app_configs' = [stored_app_configs EXCEPT ![r] = StackRest(@)]
            /\ ready' = ForcedReady(ready, r)
            /\ cache' = ClearCache(r)
            /\ ret' = [ret EXCEPT ![t] = Outcome("unset_installed_apps", "ok")]
            /\ snaps' = [snaps EXCEPT ![r] = Front(@)]
            /\ kinds' = [kinds EXCEPT ![r] = Front(@)]
            /\ stack' = Detach(r)
            /\ inst' = [inst EXCEPT ![r] = [cur |-> Last(@.saved), saved |-> Front(@.saved)]]
            /\ loaded' = Forget(loaded, inst', stack', log)
    /\ UNCHANGED <<all_models, lock, log, worked, replRecs, failed, built>>

-----------------------------------------------------------------------------
(* clear_cache, lines 273-279, and load_app, lines 283-295 *)

\* clear_cache called from outside.
ClearCacheCall(t, r) ==
    /\ AtTop(t) \/ InHook(t)
    /\ cache' = ClearCache(r)
    /\ ret' = [ret EXCEPT ![t] = Outcome("clear_cache", "ok")]
    /\ UNCHANGED <<all_models, app_configs, stored_app_configs, ready, lock, stack,
                   log, worked, snaps, replRecs, kinds, failed, loaded, built, inst>>

\* load_app(app_name), line 291: AppConfig.create is called.  Neither the
\* import lock nor ready nor app_configs is looked at.
LoadAppCall(t, r, app_name) ==
    /\ AtTop(t) \/ (InHook(t) /\ Depth(t) < MaxDepth)
    /\ stack' = [stack EXCEPT ![t] =
           Append(@, [NewFrame(r, <<NameEntry(app_name)>>) EXCEPT !.pc = "la_create"])]
    /\ UNCHANGED <<regVars, lock, ret, log, worked, snaps, replRecs, kinds, failed,
                   loaded, built, inst>>

\* Line 292: AppConfig.create has returned a new instance;
\* all_models[label] is read, which makes the key, and import_models is
\* called.
LoadAppImport(t) ==
    /\ ~AtTop(t) /\ Top(t).pc = "la_create"
    /\ LET app_config == AppConfigCreate(Top(t).installed[1].name)
       IN  /\ all_models' = [all_models EXCEPT ![Top(t).reg] =
                  AllModelsGetItem(@, app_config.label)]
           /\ stack' = SetTop(t, [Top(t) EXCEPT !.pc = "la_load", !.cfg = app_config,
                                                !.cid = FreshId(inst, stack, log)])
    /\ UNCHANGED <<app_configs, stored_app_configs, ready, cache, lock, ret, log,
                   worked, snaps, replRecs, kinds, failed, loaded, built, inst>>

\* Lines 293-295: import_models has returned; the configuration is stored
\* under its label in the OrderedDict self.app_configs is bound to, the
\* cache is cleared and load_app returns.
LoadAppReturn(t) ==
    /\ ~AtTop(t) /\ Top(t).pc = "la_load"
    /\ app_configs' = [app_configs EXCEPT ![Top(t).reg] = StoreAppConfig(@, Top(t).cfg)]
    /\ cache' = ClearCache(Top(t).reg)
    /\ stack' = Pop(t)
    /\ inst' = [inst EXCEPT ![Top(t).reg].cur =
           IdStored(app_configs[Top(t).reg], @, Top(t).cfg.label, Top(t).cid)]
    /\ loaded' = Forget(loaded \cup {Top(t).cid}, inst', stack', log)
    /\ ret' = [ret EXCEPT ![t] = Outcome("load_app", "ok")]
    /\ UNCHANGED <<all_models, stored_app_configs, ready, lock, log, worked, snaps,
                   replRecs, kinds, failed, built>>

\* AppConfig.create or import_models raises: load_app stores nothing.
LoadAppFault(t) ==
    /\ InAppHook(t)
    /\ stack' = Pop(t)
    /\ ret' = [ret EXCEPT ![t] =
           Outcome("load_app", IF Top(t).pc = "la_create" THEN "CreateFault" ELSE "LoadFault")]
    /\ loaded' = Forget(loaded, inst, stack', log)
    /\ UNCHANGED <<regVars, lock, log, worked, snaps, replRecs, kinds, failed, inst, built>>

\* The steps of load_app and of the collaborators it runs, for thread t.
LoadAppSteps(t) ==
    \/ LoadAppImport(t)
    \/ LoadAppReturn(t)
    \/ LoadAppFault(t)

-----------------------------------------------------------------------------

(* Specifications *)

\* The steps of populate and of the collaborators it runs, for thread t.
PopulateSteps(t) ==
    \/ PopulateLock(t)
    \/ ResolveGiven(t)
    \/ CreateCall(t)
    \/ CreateReturn(t)
    \/ ResolveDone(t)
    \/ LoadCall(t)
    \/ LoadReturn(t)
    \/ MarkReady(t)
    \/ SetupCall(t)
    \/ SetupReturn(t)
    \/ PopulateReturn(t)
    \/ HookFault(t)

\* The exploration stops pushing at n saved app_configs.
Room(r, n) == Len(stored_app_configs[r]) < n

\* Lists handed to populate in the specifications that exercise the
\* other methods: one, two (in both orders) and no applications.
FewLists ==
    {<<>>, <<NameEntry(NameA)>>, <<NameEntry(NameA), NameEntry(NameB)>>,
     <<NameEntry(NameB), ConfigEntry(CfgGiven)>>}

\* Lists handed to populate by a collaborator that populate is running.
NestedLists == {<<NameEntry(NameB)>>, <<ConfigEntry(CfgGiven), NameEntry(NameA)>>}

\* The life cycle: one thread calls populate, load_app and register_model
\* on registry 1; the collaborators populate runs may register models, call
\* populate again, or raise; those load_app runs may register models or
\* raise.
Next ==
    \/ PopulateSteps(1)
    \/ LoadAppSteps(1)
    \/ \E app_name \in LoadNames : AtTop(1) /\ LoadAppCall(1, 1, app_name)
    \/ \E installed \in InstalledLists : AtTop(1) /\ PopulateCall(1, 1, installed)
    \/ \E installed \in NestedLists : InHook(1) /\ PopulateCall(1, 1, installed)
    \/ \E p \in RegInputs : RegisterModel(1, 1, p[1], p[2])

Spec == Init /\ [][Next]_vars

\* Two threads call populate on registry 1; import_models may register
\* models, and any collaborator may raise.
NextConc ==
    \E t \in Threads :
        \/ PopulateSteps(t)
        \/ \E installed \in FewLists : AtTop(t) /\ PopulateCall(t, 1, installed)
        \/ \E p \in RegInputs : InLoad(t) /\ RegisterModel(t, 1, p[1], p[2])

SpecConc == Init /\ [][NextConc]_vars

\* The overrides: one thread uses every method of registry 1 from outside;
\* import_models may register models, any collaborator may call get_models,
\* and any collaborator may raise.
NextOver ==
    \/ PopulateSteps(1)
    \/ \E installed \in FewLists : AtTop(1) /\ PopulateCall(1, 1, installed)
    \/ \E p \in RegInputs : (AtTop(1) \/ InLoad(1)) /\ RegisterModel(1, 1, p[1], p[2])
    \/ \E p \in RegListConflict : AtTop(1) /\ RegisterModels(1, 1, p[1], p[2])
    \/ \E key \in FilterInputs : GetModels(1, 1, key)
    \/ \E available \in AvailableInputs :
           Room(1, MaxOverrides) /\ SetAvailableApps(1, 1, available)
    \/ UnsetAvailableApps(1, 1)
    \/ \E installed \in FewLists :
           Room(1, MaxOverrides) /\ SetInstalledApps(1, 1, installed)
    \/ UnsetInstalledApps(1, 1)

SpecOver == Init /\ [][NextOver]_vars

\* Lists, models and restrictions used where the cache is exercised.
CacheLists == {<<NameEntry(NameA)>>, <<NameEntry(NameB), ConfigEntry(CfgGiven)>>}
CacheRegInputs == {<<"a", ModelWi>>, <<"b", ModelG>>}
CacheAvailable == {{NameB}}

\* The cache: one thread uses every method of registry 1 that changes
\* app_configs or all_models, clears the cache, and calls get_models in
\* each form; import_models may register models, any collaborator of
\* populate may call get_models, and any collaborator may raise.
NextCache ==
    \/ PopulateSteps(1)
    \/ LoadAppSteps(1)
    \/ \E installed \in CacheLists : AtTop(1) /\ PopulateCall(1, 1, installed)
    \/ AtTop(1) /\ LoadAppCall(1, 1, NameB)
    \/ \E p \in CacheRegInputs :
           (AtTop(1) \/ InLoad(1) \/ InAppHook(1)) /\ RegisterModel(1, 1, p[1], p[2])
    \/ \E p \in RegListInputs : AtTop(1) /\ RegisterModels(1, 1, p[1], p[2])
    \/ \E key \in CallInputs : GetModels(1, 1, key)
    \/ AtTop(1) /\ ClearCacheCall(1, 1)
    \/ \E l \in Labels, n \in QueryNames : AtTop(1) /\ GetRegisteredModelCall(1, 1, l, n)
    \/ \E available \in CacheAvailable :
           Room(1, MaxOverrides) /\ SetAvailableApps(1, 1, available)
    \/ UnsetAvailableApps(1, 1)
    \/ \E installed \in CacheLists :
           Room(1, MaxOverrides) /\ SetInstalledApps(1, 1, installed)
    \/ UnsetInstalledApps(1, 1)

SpecCache == Init /\ [][NextCache]_vars

\* The stack of restrictions: one thread populates registry 1 and then
\* nests set_available_apps / unset_available_apps.
NextStack ==
    \/ PopulateSteps(1)
    \/ \E installed \in InstalledLists : AtTop(1) /\ PopulateCall(1, 1, installed)
    \/ \E key \in FilterInputs : AtTop(1) /\ GetModels(1, 1, key)
    \/ \E available \in AvailableInputs :
           Room(1, MaxStack) /\ SetAvailableApps(1, 1, available)
    \/ UnsetAvailableApps(1, 1)

SpecStack == Init /\ [][NextStack]_vars

\* The queries: one thread populates registry 1 and replaces its
\* applications; it and the collaborators that populate runs call the
\* query methods at every point; import_models may register models, and
\* any collaborator may raise.
NextQuery ==
    \/ PopulateSteps(1)
    \/ \E installed \in FewLists : AtTop(1) /\ PopulateCall(1, 1, installed)
    \/ \E p \in RegInputs : InLoad(1) /\ RegisterModel(1, 1, p[1], p[2])
    \/ \E key \in FilterInputs : GetModels(1, 1, key)
    \/ GetAppConfigsCall(1, 1)
    \/ \E l \in Labels : GetAppConfigCall(1, 1, l)
    \/ \E l \in Labels, n \in QueryNames : GetModelCall(1, 1, l, n)
    \/ \E app_name \in AppNames : HasAppCall(1, 1, app_name)
    \/ \E installed \in FewLists :
           Room(1, MaxOverrides) /\ SetInstalledApps(1, 1, installed)
    \/ UnsetInstalledApps(1, 1)

SpecQuery == Init /\ [][NextQuery]_vars

\* Steps of populate that are the registry's own.
Advance(t) ==
    \/ PopulateLock(t)
    \/ ResolveGiven(t)
    \/ CreateCall(t)
    \/ ResolveDone(t)
    \/ LoadCall(t)
    \/ MarkReady(t)
    \/ SetupCall(t)
    \/ PopulateReturn(t)

\* The collaborator called by the d-th activation of thread t ends, by
\* returning or by raising.
HookEndsAt(t, d) ==
    /\ Depth(t) = d
    /\ \/ CreateReturn(t)
       \/ LoadReturn(t)
       \/ SetupReturn(t)
       \/ HookFault(t)

\* The list handed to populate and to the constructor by import_models
\* where several registries are populated.
HookLists == {<<NameEntry(NameB)>>}

\* Several registries: thread 1 calls populate on the master registry
\* once, thread 2 builds registry 2 once, and import_models of any
\* registry may call populate on a registry that exists, build registry 3,
\* or call the constructor without a list.  Any collaborator may raise.
NextCross ==
    \E t \in Threads :
        \/ PopulateSteps(t)
        \/ \E installed \in NestedLists :
               /\ t = 1 /\ AtTop(t) /\ ret[t] = Outcome("none", "none")
               /\ PopulateCall(t, MasterReg, installed)
        \/ \E installed \in NestedLists :
               /\ t = 2 /\ AtTop(t) /\ ret[t] = Outcome("none", "none")
               /\ AppsInit(t, 2, installed)
        \/ \E installed \in HookLists : \E r \in Regs :
               InLoad(t) /\ built[r] /\ PopulateCall(t, r, installed)
        \/ \E installed \in HookLists : InLoad(t) /\ AppsInit(t, 3, installed)
        \/ InLoad(t) /\ AppsInitNone(t)

\* A thread that can take a step of populate takes one, a thread for which
\* the lock is free gets it, and every collaborator ends.
SpecCross ==
    /\ Init
    /\ [][NextCross]_vars
    /\ \A t \in Threads :
          /\ WF_vars(Advance(t))
          /\ \A d \in 1..MaxDepth : SF_vars(HookEndsAt(t, d))

\* Lists handed to populate where load_app runs beside it.
LiveLists == {<<NameEntry(NameA)>>, <<NameEntry(NameB), ConfigEntry(CfgGiven)>>}

\* The loops of populate and load_app: thread 1 calls populate on registry
\* 1; while it runs, import_models or setup calls load_app("pkg.a") once
\* and thread 2 calls load_app("pkg.b") once, so that app_configs changes
\* while the loops of lines 85 and 92 walk it.  Any collaborator may raise.
NextLive ==
    \/ PopulateSteps(1)
    \/ \E t \in Threads : LoadAppSteps(t)
    \/ \E installed \in LiveLists : AtTop(1) /\ PopulateCall(1, 1, installed)
    \/ /\ ~AtTop(1) /\ Top(1).pc \in {"in_load", "in_setup"}
       /\ ret[1] = Outcome("none", "none")
       /\ LoadAppCall(1, 1, NameA)
    \/ /\ ~AtTop(1) /\ ret[2] = Outcome("none", "none")
       /\ LoadAppCall(2, 1, NameB)

SpecLive == Init /\ [][NextLive]_vars

-----------------------------------------------------------------------------
(* Properties *)

PastLock(t) == \E n \in DOMAIN stack[t] : stack[t][n].pc # "lock"

AboutToReturn(t) ==
    ~AtTop(t) /\ Top(t).pc = "setup" /\ ViewDone(Top(t).iter, Top(t).j)

\* How many times the collaborator was called on the instance.
CountEv(r, kind, id) ==
    Cardinality({n \in DOMAIN log[r] : log[r][n].ev = kind /\ log[r][n].inst = id})

\* C1 (concurrent first population).  Two threads are never both past the
\* import lock inside populate; everything a population does is done by one
\* thread; no AppConfig instance has import_models or setup called twice,
\* and when populate is about to return each instance in app_configs has
\* had each called exactly once; a thread that gets the lock once ready is
\* set returns normally without touching the registry.
C1ConcurrentPopulate ==
    /\ [](/\ ~(PastLock(1) /\ PastLock(2))
          /\ \A m, n \in DOMAIN log[1] : log[1][m].by = log[1][n].by
          /\ \A m, n \in DOMAIN log[1] :
                (m # n /\ log[1][m].ev = log[1][n].ev /\ log[1][m].ev \in {"load", "setup"})
                    => log[1][m].inst # log[1][n].inst
          /\ \A t \in Threads : AboutToReturn(t) =>
                /\ Len(inst[1].cur) = Len(app_configs[1])
                /\ \A i \in DOMAIN inst[1].cur :
                       /\ CountEv(1, "load", inst[1].cur[i]) = 1
                       /\ CountEv(1, "setup", inst[1].cur[i]) = 1)
    /\ [][\A t \in Threads : (PopulateLock(t) /\ ready[1]) =>
             /\ UNCHANGED <<regVars, log, worked, lock, loaded, inst>>
             /\ stack'[t] = Front(stack[t])
             /\ ret'[t] = Outcome("populate", "ok")]_vars

\* C1 witness: thread 2 read ready = False and waits for the lock while
\* thread 1 has populated two applications, set ready and returned.
C1Witness ==
    /\ ~AtTop(2) /\ Top(2).pc = "lock"
    /\ AtTop(1) /\ ret[1] = Outcome("populate", "ok")
    /\ worked[1] /\ ~worked[2]
    /\ ready[1] /\ Len(app_configs[1]) = 2

\* C2 (idempotence).  A populate call made while ready is true returns at
\* once: all_models, app_configs, stored_app_configs, ready and the cache
\* are unchanged, no activation is created, no collaborator is called,
\* whatever list is passed.
C2Idempotent ==
    [][\A t \in Threads : \A installed \in FewLists :
          (ready[1] /\ PopulateCall(t, 1, installed)) =>
             /\ UNCHANGED <<regVars, log, stack, lock>>
             /\ ret'[t] = Outcome("populate", "ok")]_vars

\* C2 witness: populate has just returned on a ready registry whose cache
\* and stack of saved app_configs are not empty (the cache is empty whenever
\* a population ends, so this call went through line 62).
C2Witness ==
    /\ AtTop(1) /\ ret[1] = Outcome("populate", "ok")
    /\ ready[1]
    /\ cache[1] # {}
    /\ stored_app_configs[1] # <<>>
    /\ app_configs[1] # OdEmpty
    /\ all_models[1]["a"].od # OdEmpty

\* C3 (non-reentrancy), as claimed: a populate call made while a populate
\* of the registry is under way never gets past the guards, so no
\* activation below the outermost one is ever past the lock.
C3NestedNeverPopulates ==
    \A t \in Threads : \A n \in DOMAIN stack[t] : n >= 2 => stack[t][n].pc = "lock"

FirstInstalled(r, label) ==
    LET idx == {n \in DOMAIN log[r] : log[r][n].ev = "install" /\ log[r][n].cfg.label = label}
    IN  log[r][CHOOSE n \in idx : \A m \in idx : n <= m].cfg

\* C4 (duplicate labels), as claimed: while a populate that was not
\* re-entered runs, each label of app_configs maps to the first
\* configuration that populate stored under it.
C4FirstDescriptorKept ==
    \A t \in Threads :
        (Depth(t) = 1 /\ Top(t).pc \notin {"lock"} \cup AppHookPcs /\ ~Top(t).nested) =>
            \A i \in DOMAIN app_configs[Top(t).reg] :
                app_configs[Top(t).reg][i].v = FirstInstalled(Top(t).reg, app_configs[Top(t).reg][i].k)

\* C5 (failure leaves the registry non-ready), as claimed: after populate
\* raised what import_models or setup raised, ready is false.
C5NotReadyAfterFault ==
    \A t \in Threads :
        (AtTop(t) /\ ret[t].op = "populate" /\ ret[t].out \in {"LoadFault", "SetupFault"})
            => ~ready[1]

\* C6 (retry after partial failure), as claimed: after a populate that
\* died in import_models (registry not ready), a populate call made from
\* outside is not refused as re-entrant.
C6RetryAccepted ==
    \A t \in Threads :
        ~(/\ AtTop(t) /\ failed[1] /\ ~ready[1]
          /\ ret[t] = Outcome("populate", "ReentrancyFault"))

\* C7 (append-only all_models).  Every step keeps every (label, name)
\* entry of all_models with the same model, and set_available_apps and
\* unset_available_apps leave all_models untouched.
C7AppendOnly ==
    [][/\ \A l \in Labels : \A i \in DOMAIN all_models[1][l].od :
             /\ OdHas(all_models'[1][l].od, all_models[1][l].od[i].k)
             /\ OdGet(all_models'[1][l].od, all_models[1][l].od[i].k) = all_models[1][l].od[i].v
       /\ ((\E available \in AvailableInputs : SetAvailableApps(1, 1, available))
             \/ UnsetAvailableApps(1, 1)) => UNCHANGED all_models]_vars

\* C7 witness: register_model has just raised on a name that was taken,
\* while a saved app_configs is on the stack.
C7Witness ==
    /\ AtTop(1) /\ ret[1] = Outcome("register_model", "ConflictFault")
    /\ stored_app_configs[1] # <<>>
    /\ Len(all_models[1]["a"].od) = 1

InGetModels(r, model, key) ==
    \E n \in DOMAIN GetModelsBody(r, key) : GetModelsBody(r, key)[n] = model

\* unset_installed_apps undoes the only set_installed_apps in effect.
MatchingPop ==
    /\ UnsetInstalledApps(1, 1)
    /\ kinds[1] # <<>>
    /\ kinds[1][Len(kinds[1])] = "installed"
    /\ \A n \in 1..(Len(kinds[1]) - 1) : kinds[1][n] # "installed"

DefaultKey == FilterKey("keyword", FALSE, FALSE, FALSE)

\* C8 (records outlive a replacement), as claimed: after the pop every
\* model registered under the replacement is returned by
\* get_registered_model and is not in get_models().
C8AbsentAfterPop ==
    [][MatchingPop => \A p \in replRecs[1] :
          /\ GetRegisteredModel(1, p[1], p[2].object_name)' = {p[2]}
          /\ ~InGetModels(1, p[2], DefaultKey)']_vars

\* C8, amended.  After the pop every model registered under the
\* replacement is returned by get_registered_model; it is in the result of
\* get_models exactly when its label is the label of a restored
\* configuration and the options do not leave it out.
C8OutliveReplacement ==
    [][MatchingPop => \A p \in replRecs[1] :
          /\ GetRegisteredModel(1, p[1], p[2].object_name)' = {p[2]}
          /\ \A key \in FilterInputs :
                InGetModels(1, p[2], key)' <=>
                    (/\ p[1] \in OdKeys(app_configs'[1])
                     /\ (key.include_auto_created \/ ~p[2].auto_created))]_vars

\* C8 witness: unset_installed_apps has just returned; of the models
\* registered under the replacement one has the label of a restored
\* configuration and one has not.
C8Witness ==
    /\ AtTop(1) /\ ret[1] = Outcome("unset_installed_apps", "ok")
    /\ \E p \in replRecs[1] : p[1] \in OdKeys(app_configs[1])
                               /\ InGetModels(1, p[2], DefaultKey)
    /\ \E p \in replRecs[1] : p[1] \notin OdKeys(app_configs[1])

\* C9 (conflict detection).  register_model raises exactly when all_models
\* holds the lower-cased name under the label; then nothing changes.
\* Otherwise the model is stored under that name and the cache is emptied.
C9ConflictDetection ==
    [][\A t \in Threads : \A p \in RegInputs :
          (ret'[t].op = "register_model" /\ RegisterModel(t, 1, p[1], p[2])) =>
          IF OdHas(all_models[1][p[1]].od, Lower(p[2].object_name))
          THEN /\ ret'[t] = Outcome("register_model", "ConflictFault")
               /\ UNCHANGED <<regVars, stack, lock>>
          ELSE /\ ret'[t] = Outcome("register_model", "ok")
               /\ GetRegisteredModel(1, p[1], p[2].object_name)' = {p[2]}
               /\ cache'[1] = {}
               /\ UNCHANGED <<app_configs, stored_app_configs, ready, stack, lock>>]_vars

\* C9 witness: on a registry that was never populated, register_model has
\* just raised for a name taken by the class registered first.
C9Witness ==
    /\ AtTop(1) /\ ret[1] = Outcome("register_model", "ConflictFault")
    /\ ~ready[1] /\ app_configs[1] = OdEmpty
    /\ GetRegisteredModel(1, "a", ModelWi.object_name) = {ModelWI}

\* C10 (override stack balance).  unset_available_apps with every push
\* already undone raises and leaves app_configs and the stack alone;
\* otherwise it puts back the app_configs that the push it undoes found.
C10StackBalance ==
    [][UnsetAvailableApps(1, 1) =>
          IF snaps[1] = <<>>
          THEN /\ ret'[1] = Outcome("unset_available_apps", "UnbalancedStackFault")
               /\ UNCHANGED <<app_configs, stored_app_configs, ready>>
          ELSE /\ ret'[1] = Outcome("unset_available_apps", "ok")
               /\ app_configs'[1] = snaps[1][Len(snaps[1])]
               /\ Len(stored_app_configs'[1]) = Len(snaps[1]) - 1]_vars

\* C10 witness: the inner of two nested restrictions has just been undone:
\* the one-application app_configs it found is back, the two-application
\* one is still saved.
C10Witness ==
    /\ AtTop(1) /\ ret[1] = Outcome("unset_available_apps", "ok")
    /\ Len(stored_app_configs[1]) = 1
    /\ Len(stored_app_configs[1][1]) = 2
    /\ Len(app_configs[1]) = 1

\* C11 (set_available_apps validation and effect).  On a ready registry,
\* set_available_apps raises when some requested name is not the name of a
\* configuration in app_configs, and then app_configs, the stack and the
\* cache are unchanged; otherwise it pushes app_configs and leaves in
\* app_configs exactly the configurations whose name was requested, in the
\* order they had.
C11SetAvailable ==
    [][\A available \in AvailableInputs :
          (ready[1] /\ SetAvailableApps(1, 1, available)) =>
             LET old == app_configs[1]
                 new == app_configs'[1]
                 kept == {old[i] : i \in {n \in DOMAIN old : old[n].v.name \in available}}
             IN  IF \E name \in available : \A i \in DOMAIN old : old[i].v.name # name
                 THEN /\ ret'[1] = Outcome("set_available_apps", "InvalidSubsetFault")
                      /\ UNCHANGED <<regVars, stack, lock>>
                 ELSE /\ ret'[1] = Outcome("set_available_apps", "ok")
                      /\ stored_app_configs'[1] = Append(stored_app_configs[1], old)
                      /\ {new[i] : i \in DOMAIN new} = kept
                      /\ Len(new) = Cardinality(kept)
                      /\ \A i, j \in DOMAIN new :
                            i < j => OdIndex(old, new[i].k) < OdIndex(old, new[j].k)
                      /\ cache'[1] = {}
                      /\ UNCHANGED <<all_models, ready>>]_vars

\* C11 witness: set_available_apps has just restricted two configurations
\* to the second one, whose label is not the last segment of its name.
C11Witness ==
    /\ AtTop(1) /\ ret[1] = Outcome("set_available_apps", "ok")
    /\ Len(stored_app_configs[1]) = 1
    /\ OdValues(stored_app_configs[1][1]) = <<AppConfigCreate(NameB), CfgGiven>>
    /\ OdValues(app_configs[1]) = <<CfgGiven>>

\* C12 (set_installed_apps / unset_installed_apps round trip).
\* set_installed_apps raises and changes nothing when the registry is not
\* ready; when it is, it pushes app_configs, empties it, clears ready and
\* the cache and calls populate with the new list, which gets past the
\* guards.  unset_installed_apps undoing that push, whether the inner
\* populate returned or raised, puts back the app_configs that the push
\* found and leaves ready true, without running any collaborator.
C12Replacement ==
    [][/\ \A installed \in FewLists : SetInstalledApps(1, 1, installed) =>
             IF ~ready[1]
             THEN /\ ret'[1] = Outcome("set_installed_apps", "NotReadyFault")
                  /\ UNCHANGED <<regVars, stack, lock, log>>
             ELSE /\ stored_app_configs'[1] = Append(stored_app_configs[1], app_configs[1])
                  /\ app_configs'[1] = OdEmpty
                  /\ ~ready'[1]
                  /\ cache'[1] = {}
                  /\ stack'[1] = <<NewFrame(1, installed)>>
                  /\ UNCHANGED <<all_models, lock, log>>
       /\ (PopulateLock(1) /\ ~ready[1] /\ app_configs[1] = OdEmpty) =>
             /\ Depth(1) = 1 /\ stack'[1][1].pc = "resolve"
             /\ stack'[1][1].installed = stack[1][1].installed
             /\ lock'.owner = 1
       /\ (UnsetInstalledApps(1, 1) /\ kinds[1] # <<>> /\ Last(kinds[1]) = "installed") =>
             /\ ret'[1] = Outcome("unset_installed_apps", "ok")
             /\ app_configs'[1] = Last(snaps[1])
             /\ stored_app_configs'[1] = Front(stored_app_configs[1])
             /\ ready'[1]
             /\ UNCHANGED <<all_models, stack, lock, log>>]_vars

\* C12 witness: unset_installed_apps has just undone a replacement whose
\* populate died in import_models: the two configurations are back and the
\* registry is ready.
C12Witness ==
    /\ AtTop(1) /\ ret[1] = Outcome("unset_installed_apps", "ok")
    /\ failed[1]
    /\ ready[1]
    /\ stored_app_configs[1] = <<>>
    /\ OdValues(app_configs[1]) = <<AppConfigCreate(NameA), AppConfigCreate(NameB)>>

\* The cache has an entry for a call with the same options, in any form.
SameOptionsCached(r, key) == \E e \in cache[r] : Options(e.key) = Options(key)

NotReadyAnswer(op) ==
    /\ ret'[1] = Outcome(op, "NotReadyFault")
    /\ UNCHANGED <<regVars, stack, lock, log>>

\* C14 (readiness gate).  While ready is false, get_app_configs,
\* get_app_config, get_models and get_model raise the not-ready error and
\* change nothing, whoever calls them (the caller of populate or a
\* collaborator that populate runs, in a first population, in the
\* population of a replacement or after a failed one); this holds for
\* get_models because no remembered result is left once ready is false.
C14ReadinessGate ==
    /\ [](~ready[1] => cache[1] = {})
    /\ [][~ready[1] =>
             /\ GetAppConfigsCall(1, 1) => NotReadyAnswer("get_app_configs")
             /\ \A l \in Labels : GetAppConfigCall(1, 1, l) => NotReadyAnswer("get_app_config")
             /\ \A key \in FilterInputs : GetModels(1, 1, key) => NotReadyAnswer("get_models")
             /\ \A l \in Labels, n \in QueryNames :
                   GetModelCall(1, 1, l, n) => NotReadyAnswer("get_model")]_vars

\* C14 witness: import_models, run by the populate of a replacement, has
\* just been refused by get_models although the name asked for is
\* registered and its application was installed before the replacement.
C14Witness ==
    /\ InLoad(1)
    /\ kinds[1] = <<"installed">>
    /\ ret[1] = Outcome("get_models", "NotReadyFault")
    /\ ~ready[1]
    /\ stored_app_configs[1] # <<>> /\ StackTop(stored_app_configs[1]) # OdEmpty
    /\ all_models[1]["a"].od # OdEmpty

\* C15 (has_app), as claimed: has_app(name) is true exactly when a
\* configuration in app_configs has that name.
C15HasAppByName ==
    \A app_name \in AppNames :
        HasApp(1, app_name) <=> \E i \in DOMAIN app_configs[1] : app_configs[1][i].v.name = app_name

\* What the entries of an installed_apps list resolve to, in the list's order.
Resolved(installed) ==
    [i \in DOMAIN installed |->
        IF installed[i].isconfig THEN installed[i].cfg
        ELSE AppConfigCreate(installed[i].name)]

DistinctLabels(installed) ==
    \A i, j \in DOMAIN installed :
        i # j => Resolved(installed)[i].label # Resolved(installed)[j].label

\* C17 (order preservation).  When a populate that was handed a list with
\* pairwise different labels, and was not re-entered, returns at the end of
\* its body, the registry is ready and get_app_configs() gives the
\* configurations the entries resolve to, in the order of the list, an
\* AppConfig instance of the list being the one stored.
C17OrderPreserved ==
    [][\A t \in Threads : \A r \in Regs : \A installed \in InstalledLists \cup NestedLists :
          (/\ PopulateReturn(t) /\ ~Top(t).nested
           /\ Top(t).reg = r /\ Top(t).installed = installed
           /\ DistinctLabels(installed)) =>
             /\ CheckReady(r)'
             /\ GetAppConfigs(r)' = Resolved(installed)
             /\ \A i \in DOMAIN installed :
                   GetAppConfig(r, Resolved(installed)[i].label)' = {Resolved(installed)[i]}]_vars

\* C17 witness: populate has returned for a list that starts with an
\* AppConfig instance labelled "a" and goes on with "pkg.b".
C17Witness ==
    /\ AtTop(1) /\ ret[1] = Outcome("populate", "ok")
    /\ ready[1]
    /\ GetAppConfigs(1) = <<CfgGiven, AppConfigCreate(NameB)>>

\* import_models has returned on each of the instances.
AllLoaded(ids) == \A i \in DOMAIN ids : ids[i] \in loaded

\* The configurations of the events of one kind in the history, in order.
EvCfgs(r, kind) ==
    LET Is(e) == e.ev = kind
        evs == SelectSeq(log[r], Is)
    IN  [n \in DOMAIN evs |-> evs[n].cfg]

IsPrefix(s, q) == Len(s) <= Len(q) /\ \A n \in DOMAIN s : s[n] = q[n]

\* The labels of those configurations, and the labels of app_configs, in order.
EvLabels(r, kind) == [n \in DOMAIN EvCfgs(r, kind) |-> EvCfgs(r, kind)[n].label]
KeysInOrder(od) == [n \in DOMAIN od |-> od[n].k]

\* The collaborator has just been called, on the instance that the place
\* after those already served holds now.
CalledOnNext(kind) ==
    /\ Len(log'[1]) = Len(log[1]) + 1
    /\ Last(log'[1]).ev = kind
    /\ Len(EvCfgs(1, kind)) < Len(app_configs[1])
    /\ Last(log'[1]).cfg = app_configs[1][Len(EvCfgs(1, kind)) + 1].v
    /\ Last(log'[1]).inst = inst[1].cur[Len(EvCfgs(1, kind)) + 1]

\* C16 (import_models and setup ordering).  Within a populate run,
\* import_models is called on the configurations in the order of
\* app_configs, each time on the instance app_configs holds at that place
\* when the call is made, and setup likewise; setup is called on none
\* before the loop of import_models is over, import_models has returned on
\* every instance app_configs holds, the cache has been cleared and ready
\* set; this also when load_app changes app_configs while the loops run.
C16LoadBeforeSetup ==
    /\ [](/\ IsPrefix(EvLabels(1, "load"), KeysInOrder(app_configs[1]))
          /\ IsPrefix(EvLabels(1, "setup"), KeysInOrder(app_configs[1]))
          /\ EvCfgs(1, "setup") # <<>> =>
                /\ ready[1]
                /\ ~InLoad(1)
                /\ \A m, n \in DOMAIN log[1] :
                      (log[1][m].ev = "load" /\ log[1][n].ev = "setup") => m < n)
    /\ [][/\ MarkReady(1) =>
                /\ EvCfgs(1, "setup") = <<>>
                /\ Len(EvCfgs(1, "load")) = Top(1).iter.n
                /\ AllLoaded(inst[1].cur)
                /\ cache'[1] = {} /\ ready'[1]
          /\ (LoadCall(1) /\ ~AtTop(1)') => (~ready[1] /\ CalledOnNext("load"))
          /\ (SetupCall(1) /\ ~AtTop(1)') =>
                (ready[1] /\ AllLoaded(inst[1].cur) /\ CalledOnNext("setup"))]_vars

\* C16 witness: the setup hook of the second of two configurations is
\* running, on the instance that load_app stored under its label after
\* import_models had been called on the one the list resolved to.
C16Witness ==
    /\ ~AtTop(1) /\ Top(1).pc = "in_setup" /\ Top(1).j = 2
    /\ EvCfgs(1, "load") = <<AppConfigCreate(NameB), CfgGiven>>
    /\ EvCfgs(1, "setup") = <<AppConfigCreate(NameB), AppConfigCreate(NameA)>>
    /\ ready[1]

\* The thread waits for the import lock, which another thread holds.
Blocked(t) == ~AtTop(t) /\ Top(t).pc = "lock" /\ ~LockFreeFor(t)

\* C18 (no deadlock across registries).  Two threads populating different
\* registries, with import_models of each calling populate of the other,
\* are never both waiting for the lock, and every populate call, nested or
\* not, ends (returns or raises) provided the collaborators end.
C18NoCrossDeadlock ==
    /\ [](~(Blocked(1) /\ Blocked(2)))
    /\ \A t \in Threads : \A d \in 1..MaxDepth : (Depth(t) >= d) ~> (Depth(t) < d)

\* C18 witness: thread 1 waits for the lock to populate the master
\* registry while import_models of registry 2, which thread 2 is building,
\* is populating the master registry.
C18Witness ==
    /\ Blocked(1) /\ Depth(1) = 1 /\ Top(1).reg = MasterReg
    /\ Depth(2) = 2 /\ stack[2][1].reg = 2 /\ stack[2][1].ctor /\ stack[2][1].pc = "in_load"
    /\ Top(2).reg = MasterReg /\ Top(2).pc = "in_load"
    /\ lock.owner = 2 /\ lock.depth = 2

\* A populate of the registry has setup hooks still to run or running.
SetupPending(r) ==
    \E u \in Threads : \E n \in DOMAIN stack[u] :
        /\ stack[u][n].reg = r
        /\ \/ stack[u][n].pc = "in_setup"
           \/ stack[u][n].pc = "setup" /\ ~ViewDone(stack[u][n].iter, stack[u][n].j)

\* C19 (what a normal return of populate means), as claimed: whenever a
\* populate call returns normally, by line 63, by line 69 or at the end of
\* the body, ready is true and no setup hook of the registry is still to
\* run or running.
C19SetupDoneAtReturn ==
    [][\A t \in Threads :
          (\/ \E installed \in FewLists : ready[1] /\ PopulateCall(t, 1, installed)
           \/ PopulateLock(t) /\ ready[1]
           \/ PopulateReturn(t))
              => (ready'[1] /\ ~SetupPending(1)')]_vars

\* C20 (ready means loaded).  Whenever ready is true, import_models has
\* returned on every instance app_configs holds; every app_configs on the
\* stack holds only such instances, and it was pushed, as it then was,
\* while ready was true.
C20ReadyMeansLoaded ==
    /\ [](/\ Len(inst[1].cur) = Len(app_configs[1])
          /\ ready[1] => AllLoaded(inst[1].cur)
          /\ Len(inst[1].saved) = Len(stored_app_configs[1])
          /\ \A n \in DOMAIN stored_app_configs[1] :
                /\ Len(inst[1].saved[n]) = Len(stored_app_configs[1][n])
                /\ AllLoaded(inst[1].saved[n]))
    /\ [][Len(stored_app_configs'[1]) > Len(stored_app_configs[1]) =>
             /\ ready[1]
             /\ stored_app_configs'[1] = Append(stored_app_configs[1], app_configs[1])
             /\ inst'[1].saved = Append(inst[1].saved, inst[1].cur)]_vars

\* C20 witness: a replacement has been populated while the application it
\* replaced is saved; the registry is ready and import_models has returned
\* on the three instances it holds.
C20Witness ==
    /\ AtTop(1) /\ ready[1]
    /\ kinds[1] = <<"installed">>
    /\ OdValues(stored_app_configs[1][1]) = <<AppConfigCreate(NameA)>>
    /\ OdValues(app_configs[1]) = <<AppConfigCreate(NameB), CfgGiven>>
    /\ inst[1] = [cur |-> <<2, GivenId>>, saved |-> <<(<<1>>)>>]
    /\ loaded = {GivenId, 1, 2}

====
